---- MODULE Spec2Model ----
(***************************************************************************)
(* Model of generate_pdf.py: process_orders = discover_orders, then        *)
(* combine_order per pair, then layout_figabooths (grid planner, placement *)
(* loop, save).                                                            *)
(*                                                                         *)
(* Lengths are exact rationals held as integers:                           *)
(*   - px lengths (fragment and figabooth sizes, the *_px constants) in    *)
(*     units of 1/1000 px;                                                 *)
(*   - pt lengths (everything layout_figabooths computes) in units of      *)
(*     1/4000 pt, so that px -> pt (PX_TO_MM * mm = 0.75 up to 1e-10) is   *)
(*     multiplication by 3;                                                *)
(*   - the two translate() x offsets of combine_order in units of          *)
(*     1/2000 px, so that the division by 2 is exact.                      *)
(* Fragment sizes are non-negative (a size); floating-point rounding is    *)
(* not modelled.                                                           *)
(***************************************************************************)
EXTENDS Integers, Sequences, FiniteSets, TLC

VARIABLES
    heads,      \* ids with an <id>_head.svg in the order directory
    bodies,     \* ids with an <id>_body.svg in the order directory
    pc,         \* position of process_orders
    err,        \* the exception that ended the run, "none" if none
    pairs,      \* discover_orders' result (the order ids, paths follow from them)
    figs,       \* process_orders' figabooths list
    written,    \* the figabooth SVGs written, in order
    grid,       \* layout_figabooths' locals once computed
    current_y,  \* the row-counting loop's running y
    index,      \* the placement loop's next index
    rendered,   \* what svg2rlg returned for each figabooth placed so far
    canvas      \* the PDF canvas: opened, showPage calls, drawings, save calls

vars == <<heads, bodies, pc, err, pairs, figs, written, grid, current_y, index, rendered, canvas>>

\* ------------------------------------------------------------ bounds / inputs

MaxFigs == 3

\* Order ids as strings over a two-letter alphabet ("a", "ab", "b", "ba").
OrderIds == { <<1>>, <<1, 2>>, <<2>>, <<2, 1>> }

NoDims == [w |-> -1, h |-> -1]

\* Sizes a head / body SVG may declare (1/1000 px), or no size at all.
HeadFrags == { [w |-> 380000, h |-> 253128],
               [w |-> 800000, h |-> 600000],
               [w |-> 0,      h |-> 0] }

BodyFrags == { [w |-> 770908, h |-> 253128],
               [w |-> 10000,  h |-> 837767],
               [w |-> 0,      h |-> 253128] }

\* What svg2rlg / renderPDF.draw may do with one figabooth SVG.
RenderOutcomes == { "ok", "empty", "raise" }

\* ------------------------------------------------------------ constants

PtPerPx == 3

page_width_pt == 2381103

page_height_pt == 3367560

v_spacing_px == 78383

start_x_px == 22793

top_margin_px == 31625

overlap_px == 11929

ToPt(px) == px * PtPerPx

v_spacing_pt == ToPt(v_spacing_px)

start_x_pt == ToPt(start_x_px)

top_margin_pt == ToPt(top_margin_px)

overlap_pt == ToPt(overlap_px)

\* ------------------------------------------------------------ helpers

Max(a, b) == IF a >= b THEN a ELSE b

\* Python's str comparison: lexicographic by code point, a proper prefix first.
RECURSIVE LexLess(_, _)
LexLess(s, t) ==
    IF s = <<>> THEN t # <<>>
    ELSE IF t = <<>> THEN FALSE
    ELSE IF Head(s) # Head(t) THEN Head(s) < Head(t)
    ELSE LexLess(Tail(s), Tail(t))

RECURSIVE InsertSorted(_, _)
InsertSorted(x, s) ==
    IF s = <<>> THEN <<x>>
    ELSE IF LexLess(x, Head(s)) THEN <<x>> \o s
    ELSE <<Head(s)>> \o InsertSorted(x, Tail(s))

\* Mutant of SortById: the sort is dropped, glob order is returned.
SortById_unsorted(s) == s

\* list.sort(key=order id): stable, ascending.
RECURSIVE SortById(_)
SortById(s) ==
    IF s = <<>> THEN <<>>
    ELSE LET rest == SortById(SubSeq(s, 1, Len(s) - 1))
         IN  IF \E i \in 1..Len(rest) : LexLess(s[Len(s)], rest[i])
             THEN InsertSorted(s[Len(s)], rest)
             ELSE Append(rest, s[Len(s)])

\* The loop body's filter: a head whose body file does not exist is skipped.
RECURSIVE KeepWithBody(_, _)
KeepWithBody(globbed, bodyIds) ==
    IF globbed = <<>> THEN <<>>
    ELSE IF Head(globbed) \in bodyIds
         THEN <<Head(globbed)>> \o KeepWithBody(Tail(globbed), bodyIds)
         ELSE KeepWithBody(Tail(globbed), bodyIds)

\* Every order in which glob("*_head.svg") may yield the head files.
GlobOrders(S) ==
    { s \in [1..Cardinality(S) -> S] : \A i, j \in 1..Cardinality(S) : i # j => s[i] # s[j] }

discover_orders(globbed, bodyIds) == SortById(KeepWithBody(globbed, bodyIds))

\* ------------------------------------------------------------ composite builder

\* Mutant of total_width: the head's width is taken for the total.
total_width_head_only(head_width, body_width) == head_width

total_width(head_width, body_width) == Max(head_width, body_width)

total_height(head_height, body_height) == head_height + body_height

figabooth_dimensions(head, body) ==
    [head_width  |-> head.w, head_height |-> head.h,
     body_width  |-> body.w, body_height |-> body.h,
     total_width  |-> total_width(head.w, body.w),
     total_height |-> total_height(head.h, body.h)]

\* Mutant of offset_x: the division by 2 is dropped.
offset_x_undivided(total, own) == 2 * (total - own)

\* (total - own) / 2 px, held in 1/2000 px.
offset_x(total, own) == total - own

body_offset_y(head_height) == head_height

\* The root element and the two translate() transforms combine_order writes.
combine_svg(id, d) ==
    [order_id |-> id,
     width |-> d.total_width, height |-> d.total_height,
     head_width |-> d.head_width, head_height |-> d.head_height,
     body_width |-> d.body_width, body_height |-> d.body_height,
     head_offset_x |-> offset_x(d.total_width, d.head_width),
     head_offset_y |-> 0,
     body_offset_x |-> offset_x(d.total_width, d.body_width),
     body_offset_y |-> body_offset_y(d.head_height)]

Figabooth(id, d) ==
    [order_id |-> id, width_px |-> d.total_width, height_px |-> d.total_height]

\* ------------------------------------------------------------ pagination planner

start_y_of(fig_height_pt) ==
    LET y == page_height_pt - top_margin_pt - fig_height_pt
    IN  IF y < 0 THEN 0 ELSE y

step_x_for(fig_width_pt, overlap) ==
    LET s == fig_width_pt - overlap
    IN  IF s <= 0 THEN fig_width_pt ELSE s

step_x_of(fig_width_pt) == step_x_for(fig_width_pt, overlap_pt)

available_width_pt == page_width_pt - start_x_pt

\* math.floor(a / b) of the float quotient, for b > 0; b = 0 raises (DividesByZero).
FloorDiv(a, b) == a \div b

\* Mutant of max_cols_for: the "+ 1" is dropped.
max_cols_for_no_plus_one(available, fig_width_pt, step_x_pt) ==
    IF available <= fig_width_pt
    THEN 1
    ELSE Max(1, FloorDiv(available - fig_width_pt, step_x_pt))

max_cols_for(available, fig_width_pt, step_x_pt) ==
    IF available <= fig_width_pt
    THEN 1
    ELSE Max(1, FloorDiv(available - fig_width_pt, step_x_pt) + 1)

\* Line 178 divides by step_x_pt, which is 0.0 for a figabooth of width 0.
DividesByZero(fig_width_pt) ==
    ~(available_width_pt <= fig_width_pt) /\ step_x_of(fig_width_pt) = 0

max_cols_of(fig_width_pt) ==
    max_cols_for(available_width_pt, fig_width_pt, step_x_of(fig_width_pt))

row_height_of(fig_height_pt) == fig_height_pt + v_spacing_pt

\* Mutant of row_fits: a row position of exactly 0 is not counted.
row_fits_strict(y) == y > 0

row_fits(y) == y >= 0

rows_or_one(max_rows) == IF max_rows = 0 THEN 1 ELSE max_rows

per_page_of(max_cols, max_rows) == max_cols * max_rows

\* ------------------------------------------------------------ placement

slot_of(i, per_page) == i % per_page

\* Mutant of row_of: the row advances with every slot.
row_of_every_slot(slot, max_cols) == slot

row_of(slot, max_cols) == slot \div max_cols

col_of(slot, max_cols) == slot % max_cols

\* Mutant of show_page_due: a page break also before the first page.
show_page_due_first_too(slot, i) == slot = 0

show_page_due(slot, i) == slot = 0 /\ i # 0

x_of(col, step_x_pt) == start_x_pt + col * step_x_pt

y_of(row, start_y, row_height_pt) == start_y - row * row_height_pt

\* Mutant of is_empty_drawing: only a zero width is tested, so nothing is skipped here.
is_empty_drawing_never(outcome) == FALSE

is_empty_drawing(outcome) == outcome = "empty"

\* ------------------------------------------------------------ state machine

NoGrid ==
    [planned |-> FALSE, fig_width_pt |-> 0, fig_height_pt |-> 0, start_y |-> 0,
     step_x_pt |-> 0, available_width_pt |-> 0, max_cols |-> 0,
     row_height_pt |-> 0, max_rows |-> 0, per_page |-> 0]

NoCanvas == [opened |-> FALSE, pages |-> 0, drawn |-> <<>>, saves |-> 0]

Init ==
    /\ heads \in SUBSET OrderIds
    /\ bodies \in SUBSET OrderIds
    /\ Cardinality(heads \cap bodies) <= MaxFigs
    /\ pc = "discover"
    /\ err = "none"
    /\ pairs = <<>>
    /\ figs = <<>>
    /\ written = <<>>
    /\ grid = NoGrid
    /\ current_y = 0
    /\ index = 0
    /\ rendered = <<>>
    /\ canvas = NoCanvas

Discover ==
    /\ pc = "discover"
    /\ \E globbed \in GlobOrders(heads) :
           pairs' = discover_orders(globbed, bodies)
    /\ pc' = "combine"
    /\ UNCHANGED <<heads, bodies, err, figs, written, grid, current_y, index, rendered, canvas>>

\* One iteration of process_orders' loop: combine_order on the next pair.
CombineOrder ==
    /\ pc = "combine"
    /\ Len(figs) < Len(pairs)
    /\ \E head \in HeadFrags \cup {NoDims}, body \in BodyFrags \cup {NoDims} :
         LET id == pairs[Len(figs) + 1]
             d  == figabooth_dimensions(head, body)
         IN  IF head = NoDims \/ body = NoDims
             THEN /\ pc' = "error"
                  /\ err' = "ValueError"
                  /\ UNCHANGED <<figs, written>>
             ELSE /\ written' = Append(written, combine_svg(id, d))
                  /\ figs' = Append(figs, Figabooth(id, d))
                  /\ UNCHANGED <<pc, err>>
    /\ UNCHANGED <<heads, bodies, pairs, grid, current_y, index, rendered, canvas>>

\* layout_figabooths up to the row-counting loop (lines 146-182).
PlanStart ==
    /\ pc = "combine"
    /\ Len(figs) = Len(pairs)
    /\ IF figs = <<>>
       THEN /\ pc' = "done"
            /\ UNCHANGED <<err, grid, current_y>>
       ELSE LET fig_width_pt  == ToPt(figs[1].width_px)
                fig_height_pt == ToPt(figs[1].height_px)
            IN  IF DividesByZero(fig_width_pt)
                THEN /\ pc' = "error"
                     /\ err' = "ZeroDivisionError"
                     /\ UNCHANGED <<grid, current_y>>
                ELSE /\ grid' = [planned |-> FALSE,
                                 fig_width_pt |-> fig_width_pt,
                                 fig_height_pt |-> fig_height_pt,
                                 start_y |-> start_y_of(fig_height_pt),
                                 step_x_pt |-> step_x_of(fig_width_pt),
                                 available_width_pt |-> available_width_pt,
                                 max_cols |-> max_cols_of(fig_width_pt),
                                 row_height_pt |-> row_height_of(fig_height_pt),
                                 max_rows |-> 0,
                                 per_page |-> 0]
                     /\ current_y' = start_y_of(fig_height_pt)
                     /\ pc' = "rows"
                     /\ UNCHANGED err
    /\ UNCHANGED <<heads, bodies, pairs, figs, written, index, rendered, canvas>>

\* One iteration of `while current_y >= 0` (lines 183-185).
RowStep ==
    /\ pc = "rows"
    /\ row_fits(current_y)
    /\ grid' = [grid EXCEPT !.max_rows = @ + 1]
    /\ current_y' = current_y - grid.row_height_pt
    /\ UNCHANGED <<heads, bodies, pc, err, pairs, figs, written, index, rendered, canvas>>

\* Loop exit, per_page, and the canvas is opened (lines 186-192).
PlanFinish ==
    /\ pc = "rows"
    /\ ~row_fits(current_y)
    /\ grid' = [grid EXCEPT !.planned = TRUE,
                            !.max_rows = rows_or_one(grid.max_rows),
                            !.per_page = per_page_of(grid.max_cols, rows_or_one(grid.max_rows))]
    /\ canvas' = [canvas EXCEPT !.opened = TRUE]
    /\ index' = 0
    /\ pc' = "place"
    /\ UNCHANGED <<heads, bodies, err, pairs, figs, written, current_y, rendered>>

\* One iteration of the placement loop (lines 194-212).
PlaceStep ==
    /\ pc = "place"
    /\ index < Len(figs)
    /\ \E outcome \in RenderOutcomes :
         LET slot  == slot_of(index, grid.per_page)
             row   == row_of(slot, grid.max_cols)
             col   == col_of(slot, grid.max_cols)
             pages == IF show_page_due(slot, index) THEN canvas.pages + 1 ELSE canvas.pages
             x     == x_of(col, grid.step_x_pt)
             y     == y_of(row, grid.start_y, grid.row_height_pt)
             rec   == [index |-> index, order_id |-> figs[index + 1].order_id,
                       page |-> pages, row |-> row, col |-> col, x |-> x, y |-> y]
         IN  /\ rendered' = Append(rendered, outcome)
             /\ IF outcome = "raise"
                THEN /\ canvas' = [canvas EXCEPT !.pages = pages]
                     /\ pc' = "error"
                     /\ err' = "RenderError"
                     /\ UNCHANGED index
                ELSE /\ canvas' = [canvas EXCEPT !.pages = pages,
                                                 !.drawn = IF is_empty_drawing(outcome)
                                                           THEN @ ELSE Append(@, rec)]
                     /\ index' = index + 1
                     /\ UNCHANGED <<pc, err>>
    /\ UNCHANGED <<heads, bodies, pairs, figs, written, grid, current_y>>

\* c.save() after the loop (line 214).
Save ==
    /\ pc = "place"
    /\ index = Len(figs)
    /\ canvas' = [canvas EXCEPT !.saves = @ + 1]
    /\ pc' = "done"
    /\ UNCHANGED <<heads, bodies, err, pairs, figs, written, grid, current_y, index, rendered>>

Next ==
    \/ Discover
    \/ CombineOrder
    \/ PlanStart
    \/ RowStep
    \/ PlanFinish
    \/ PlaceStep
    \/ Save

Spec == Init /\ [][Next]_vars

\* The program is one thread that runs to completion: it never stops while a step is left.
FairSpec == Spec /\ WF_vars(Next)

\* ------------------------------------------------------------ claims

Planned == pc \in {"place", "done"} /\ grid.planned

PlanComputed == pc \in {"rows", "place"} \/ (pc \in {"done", "error"} /\ canvas.opened)

\* C1: every composite has width max(head.width, body.width) and height
\* head.height + body.height, and these are the Figabooth's width_px / height_px
\* (scenario: head 100x50, body 80x60 gives 100x110).
C1_CompositeSize ==
    /\ Len(written) = Len(figs)
    /\ \A k \in 1..Len(figs) :
         LET w == written[k]
         IN  /\ w.width >= w.head_width
             /\ w.width >= w.body_width
             /\ w.width \in {w.head_width, w.body_width}
             /\ w.height = w.head_height + w.body_height
             /\ figs[k].width_px = w.width
             /\ figs[k].height_px = w.height
             /\ figs[k].order_id = w.order_id
    /\ LET d == figabooth_dimensions([w |-> 100, h |-> 50], [w |-> 80, h |-> 60])
       IN  d.total_width = 100 /\ d.total_height = 110

C1_Witness ==
    \E k \in 1..Len(figs) :
        /\ written[k].body_width > written[k].head_width
        /\ written[k].head_height > 0
        /\ written[k].body_height > 0

\* C2: head at ((W - head.width)/2, 0), body at ((W - body.width)/2, head.height):
\* both centred with a non-negative offset, the body starts exactly where the head
\* ends and ends at the composite's height. (x offsets are in half units, so
\* 2 * offset + width = W reads offset + width = W.)
C2_Placement ==
    /\ \A k \in 1..Len(written) :
         LET w == written[k]
         IN  /\ w.head_offset_x + w.head_width = w.width
             /\ w.body_offset_x + w.body_width = w.width
             /\ w.head_offset_x >= 0
             /\ w.body_offset_x >= 0
             /\ w.head_offset_y = 0
             /\ w.body_offset_y = w.head_height
             /\ w.body_offset_y + w.body_height = w.height
    /\ LET w == combine_svg(<<1>>, figabooth_dimensions([w |-> 100, h |-> 50],
                                                       [w |-> 80, h |-> 60]))
       IN  /\ w.head_offset_x = 0 /\ w.head_offset_y = 0
           /\ w.body_offset_x = 2 * 10 /\ w.body_offset_y = 50

C2_Witness ==
    \E k \in 1..Len(written) :
        /\ written[k].head_offset_x > 0
        /\ written[k].body_offset_x = 0
        /\ written[k].body_offset_y > 0

\* C3: capacity = columns * rows; every composite drawn is on page index \div
\* capacity; the page breaks emitted before index i is handled number
\* (i - 1) \div capacity, so a break comes exactly when the slot wraps to 0 and
\* never before the first page.
C3_Pagination ==
    Planned =>
        /\ grid.per_page = grid.max_cols * grid.max_rows
        /\ \A k \in 1..Len(canvas.drawn) :
             canvas.drawn[k].page = canvas.drawn[k].index \div grid.per_page
        /\ canvas.pages = (IF index = 0 THEN 0 ELSE (index - 1) \div grid.per_page)

C3_Witness ==
    /\ Planned
    /\ grid.per_page = 2
    /\ \E k \in 1..Len(canvas.drawn) :
         canvas.drawn[k].index = 2 /\ canvas.drawn[k].page = 1

\* C4 (as stated): for every composite size the planner ends without error with
\* columns >= 1, rows >= 1, capacity >= 1; one column for a composite at least as
\* wide as the usable width, one row for one taller than the usable height.
C4_PlannerAlwaysYieldsGrid ==
    /\ err # "ZeroDivisionError"
    /\ Planned =>
         /\ grid.max_cols >= 1
         /\ grid.max_rows >= 1
         /\ grid.per_page >= 1
         /\ (grid.fig_width_pt >= page_width_pt - start_x_pt => grid.max_cols = 1)
         /\ (grid.fig_height_pt > page_height_pt - top_margin_pt
                => grid.start_y = 0 /\ grid.max_rows = 1)

\* C5 (as stated): once opened, the canvas is saved exactly once on every exit,
\* after all figabooths were handled; with no figabooths it is never opened.
C5_SavedOnEveryExit ==
    /\ canvas.saves <= 1
    /\ (canvas.saves = 1 => canvas.opened /\ index = Len(figs))
    /\ (pc \in {"done", "error"} /\ canvas.opened => canvas.saves = 1)
    /\ (pc = "done" /\ figs = <<>> => ~canvas.opened /\ canvas.saves = 0)

\* C6: discover_orders returns exactly the ids with both a head and a body file,
\* each once, in ascending lexicographic order; a head without body adds nothing.
C6_Discovery ==
    pc # "discover" =>
        /\ { pairs[k] : k \in 1..Len(pairs) } = heads \cap bodies
        /\ Len(pairs) = Cardinality(heads \cap bodies)
        /\ \A k \in 1..(Len(pairs) - 1) : LexLess(pairs[k], pairs[k + 1])

C6_Witness ==
    /\ pc # "discover"
    /\ heads \ bodies # {}
    /\ Len(pairs) = 3
    /\ pairs[1] = <<1>> /\ pairs[2] = <<1, 2>> /\ pairs[3] = <<2>>

\* C7: an empty drawing is not drawn and its slot stays blank; every other
\* composite is drawn once, at the page, row, column and coordinates of its own
\* index; page breaks are emitted as for a run without skips; the document is saved.
C7_EmptySkipped ==
    Planned =>
        /\ \A i \in 0..(Len(rendered) - 1) :
             LET here == { k \in 1..Len(canvas.drawn) : canvas.drawn[k].index = i }
             IN  IF rendered[i + 1] = "empty"
                 THEN here = {}
                 ELSE /\ Cardinality(here) = 1
                      /\ \A k \in here :
                           LET d    == canvas.drawn[k]
                               slot == i % grid.per_page
                           IN  /\ d.page = i \div grid.per_page
                               /\ d.row = slot \div grid.max_cols
                               /\ d.col = slot % grid.max_cols
                               /\ d.x = start_x_pt + d.col * grid.step_x_pt
                               /\ d.y = grid.start_y - d.row * grid.row_height_pt
                               /\ d.order_id = pairs[i + 1]
        /\ canvas.pages = (IF index = 0 THEN 0 ELSE (index - 1) \div grid.per_page)
        /\ (pc = "done" => canvas.saves = 1 /\ Len(rendered) = Len(figs))

C7_Witness ==
    /\ pc = "done"
    /\ grid.planned
    /\ grid.per_page = 2
    /\ rendered = <<"ok", "empty", "ok">>
    /\ canvas.pages = 1

\* C8: step_x = width - overlap, or width when that is <= 0; columns = 1 when the
\* usable width is <= width, else floor((usable - width) / step_x) + 1
\* (usable 380, width 100, overlap 10: step_x 90, 4 columns).
C8_Columns ==
    /\ PlanComputed =>
         LET w     == grid.fig_width_pt
             avail == page_width_pt - start_x_pt
         IN  /\ w = 3 * figs[1].width_px
             /\ grid.step_x_pt = (IF w - overlap_pt <= 0 THEN w ELSE w - overlap_pt)
             /\ grid.available_width_pt = avail
             /\ grid.max_cols = (IF avail <= w THEN 1
                                 ELSE (avail - w) \div grid.step_x_pt + 1)
    /\ step_x_for(100, 10) = 90
    /\ max_cols_for(380, 100, step_x_for(100, 10)) = 4

C8_Witness ==
    /\ PlanComputed
    /\ grid.fig_width_pt > 0
    /\ grid.step_x_pt = grid.fig_width_pt
    /\ grid.max_cols > 1

\* No page holds more rows than this: a row is at least the vertical gap high.
MostRows == page_height_pt \div v_spacing_pt + 1

\* C9: the row-counting loop ends, with rows = floor(start_y / row_height) + 1:
\* the number of positions start_y - k * row_height that are >= 0, 0 included.
C9_RowLoop ==
    (pc = "rows") ~>
        (/\ pc = "place"
         /\ grid.row_height_pt > 0
         /\ grid.start_y >= 0
         /\ grid.max_rows = grid.start_y \div grid.row_height_pt + 1
         /\ grid.max_rows =
              Cardinality({ k \in 0..MostRows : grid.start_y - k * grid.row_height_pt >= 0 }))

C9_Witness ==
    /\ pc = "place"
    /\ grid.start_y = grid.row_height_pt
    /\ grid.max_rows = 2

\* C10: every slot drawn has column < columns and row < rows; two composites on
\* one page never share a (row, column); y >= 0, and x + width <= page width when
\* the composite is narrower than the usable width.
C10_SlotsOnPage ==
    Planned =>
        /\ \A k \in 1..Len(canvas.drawn) :
             LET d == canvas.drawn[k]
             IN  /\ d.col >= 0 /\ d.col < grid.max_cols
                 /\ d.row >= 0 /\ d.row < grid.max_rows
                 /\ d.x = start_x_pt + d.col * grid.step_x_pt
                 /\ d.y = grid.start_y - d.row * grid.row_height_pt
                 /\ d.y >= 0
                 /\ (grid.fig_width_pt < page_width_pt - start_x_pt
                        => d.x + grid.fig_width_pt <= page_width_pt)
        /\ \A k, l \in 1..Len(canvas.drawn) :
             (k # l /\ canvas.drawn[k].page = canvas.drawn[l].page)
                => <<canvas.drawn[k].row, canvas.drawn[k].col>>
                     # <<canvas.drawn[l].row, canvas.drawn[l].col>>

C10_Witness ==
    /\ Planned
    /\ grid.max_cols = 2
    /\ grid.max_rows = 2
    /\ \E k, l \in 1..Len(canvas.drawn) :
         /\ canvas.drawn[k].col = 1 /\ canvas.drawn[k].row = 0
         /\ canvas.drawn[l].col = 0 /\ canvas.drawn[l].row = 1
         /\ canvas.drawn[k].page = canvas.drawn[l].page

====
